---- MODULE Spec2Model ----
(***************************************************************************)
(* Model of src/kafka_test/main.py: the FastAPI order/user service.        *)
(*                                                                         *)
(* State: the Product, User and Order tables, the request-local state of   *)
(* each create_order call, the BackgroundTasks list of each call, the      *)
(* Kafka topic 'logs' and the consumer thread started at startup.          *)
(*                                                                         *)
(* create_order is split at the points where it touches shared state (the  *)
(* store, the topic), so that concurrent requests interleave there.  The   *)
(* user endpoints each run one query/commit and are single steps.          *)
(*                                                                         *)
(* Spec is the whole service.  OrderSpec, TaskSpec, UserSpec and LogSpec   *)
(* run the parts a property is about; each property names its own.         *)
(***************************************************************************)
EXTENDS Integers, Sequences, FiniteSets, TLC

\* ---------------------------------------------------------------- bounds
MaxRequests == 2      \* create_order requests served in one run
MaxUserId   == 2      \* user ids the store hands out

Requests   == 1..MaxRequests
UserIds    == 1..MaxUserId
Prices     == {5, 7}     \* prices a Product row takes
ProductIds == {1, 2}  \* ids of the rows of the Product table

\* main.py:16
KAFKA_TOPIC == "logs"

\* Request bodies of POST /orders/ (OrderCreate): a listed product, both
\* products, and a product id (3) that is in no row of the Product table.
OrderCreate ==
    { [user_id |-> 1, products |-> <<1>>,    email |-> "a@b.com"],
      [user_id |-> 2, products |-> <<1, 2>>, email |-> "c@d.com"],
      [user_id |-> 1, products |-> <<2, 3>>, email |-> "a@b.com"] }

\* Request bodies of POST/PUT /users/ (UserCreate)
UserCreate ==
    { [username |-> "ann", email |-> "ann@x.org", password_hash |-> "h1"],
      [username |-> "bob", email |-> "bob@x.org", password_hash |-> "h2"] }

VARIABLES
    products,          \* Product table: id -> price
    users,             \* User table: id -> [username, email, password_hash]
    orders,            \* Order table: id -> [user_id, products, email, total_price]
    req,               \* per create_order call: its locals and its outcome
    background_tasks,  \* per create_order call: the BackgroundTasks list
    topic,             \* the broker's log of KAFKA_TOPIC (single partition)
    consumer,          \* the consumer thread: started, position
    reported,          \* what consume() printed, in order
    response           \* the last response of a /users/ endpoint

vars == <<products, users, orders, req, background_tasks, topic, consumer,
          reported, response>>

\* ------------------------------------------------------------ pure helpers
RECURSIVE SumPrices(_, _)
SumPrices(rows, ids) ==
    IF ids = {} THEN 0
    ELSE LET p == CHOOSE x \in ids : TRUE
         IN  rows[p] + SumPrices(rows, ids \ {p})

\* main.py:42-44: sums the price of every row it is handed; order_data is
\* not consulted.
calculate_total_price(order_data, rows) == SumPrices(rows, DOMAIN rows)

\* main.py:47-49: the body is `pass`: nothing is rejected.
validate_user_input(order_data) == TRUE

\* main.py:76: value_serializer, json.dumps(v).encode('utf-8'): the object's
\* keys and values in order, as one flat token string.
Serialize(v) == <<"{", "event", v.event, "order_id", v.order_id, "}">>

\* main.py:165: json.loads(message.value.decode('utf-8'))
Deserialize(m) == [event |-> m[3], order_id |-> m[5]]

\* main.py:63,69: the argument lists handed to add_task
EmailTask(order_id, email) ==
    [actor |-> "send_confirmation_email", args |-> <<order_id, email>>,
     state |-> "pending"]
PaymentTask(order_id) ==
    [actor |-> "process_payment", args |-> <<order_id>>, state |-> "pending"]

IdleReq ==
    [pc |-> "idle", order_data |-> << >>, total_price |-> 0,
     db_order |-> << >>, status |-> 0]

NoResponse == [op |-> "none", user_id |-> 0, status |-> 0, body |-> << >>]

\* ------------------------------------------------------------------- Init
Init ==
    /\ products \in [ProductIds -> Prices]
    /\ users = << >>
    /\ orders = << >>
    /\ req = [r \in Requests |-> IdleReq]
    /\ background_tasks = [r \in Requests |-> << >>]
    /\ topic = << >>
    /\ consumer = [started |-> FALSE, position |-> -1]
    /\ reported = << >>
    /\ response = NoResponse

\* --------------------------------------------------- POST /orders/ (90-119)
\* main.py:86-88: the dependency reads every row of the Product table.
get_products == products

\* main.py:105: Order(**order_data.dict(), total_price=total_price)
Order(order_data, total_price) ==
    [user_id |-> order_data.user_id, products |-> order_data.products,
     email |-> order_data.email, total_price |-> total_price]

\* The store's autoincrement key: Order rows are never deleted.
NextOrderId == Cardinality(DOMAIN orders) + 1

\* main.py:94-102: dependencies resolved, input validated, total computed.
\* Requests are served only once startup has run (on_event("startup")).
create_order_receive(r, order_data) ==
    /\ consumer.started
    /\ req[r].pc = "idle"
    /\ \A q \in Requests : q < r => req[q].pc # "idle"
    /\ validate_user_input(order_data)
    /\ LET rows == get_products
       IN  req' = [req EXCEPT ![r] =
                     [@ EXCEPT !.pc = "priced", !.order_data = order_data,
                               !.total_price =
                                   calculate_total_price(order_data, rows)]]
    /\ UNCHANGED <<products, users, orders, background_tasks, topic, consumer,
                   reported, response>>

\* main.py:105-108: add, commit, refresh: the row is stored under a new id.
create_order_persist(r) ==
    /\ req[r].pc = "priced"
    /\ LET id  == NextOrderId
           row == Order(req[r].order_data, req[r].total_price)
       IN  /\ orders' = orders @@ (id :> row)
           /\ req' = [req EXCEPT ![r] =
                        [@ EXCEPT !.pc = "committed",
                                  !.db_order = [id |-> id] @@ row]]
    /\ UNCHANGED <<products, users, background_tasks, topic, consumer,
                   reported, response>>

\* Mutation of create_order_persist_fail: the two add_task calls run before
\* the commit, so a failed commit leaves them scheduled.
create_order_persist_fail_after_schedule(r) ==
    /\ req[r].pc = "priced"
    /\ background_tasks' =
         [background_tasks EXCEPT ![r] =
            <<EmailTask(NextOrderId, req[r].order_data.email),
              PaymentTask(NextOrderId)>>]
    /\ req' = [req EXCEPT ![r] = [@ EXCEPT !.pc = "persist_error",
                                           !.status = 500]]
    /\ UNCHANGED <<products, users, orders, topic, consumer, reported,
                   response>>

\* main.py:107: commit raises; the exception leaves the handler (500).
create_order_persist_fail(r) ==
    /\ req[r].pc = "priced"
    /\ req' = [req EXCEPT ![r] = [@ EXCEPT !.pc = "persist_error",
                                           !.status = 500]]
    /\ UNCHANGED <<products, users, orders, background_tasks, topic, consumer,
                   reported, response>>

\* main.py:110-113: two add_task calls on the request's BackgroundTasks.
create_order_schedule(r) ==
    /\ req[r].pc = "committed"
    /\ background_tasks' =
         [background_tasks EXCEPT ![r] =
            <<EmailTask(req[r].db_order.id, req[r].order_data.email),
              PaymentTask(req[r].db_order.id)>>]
    /\ req' = [req EXCEPT ![r] = [@ EXCEPT !.pc = "scheduled"]]
    /\ UNCHANGED <<products, users, orders, topic, consumer, reported,
                   response>>

\* Mutation of create_order_publish: the event carries the id of the newest
\* Order row instead of db_order.id.
create_order_publish_newest_id(r) ==
    /\ req[r].pc = "scheduled"
    /\ LET log_data == [event |-> "order_created",
                        order_id |-> Cardinality(DOMAIN orders)]
       IN  topic' = Append(topic, Serialize(log_data))
    /\ req' = [req EXCEPT ![r] = [@ EXCEPT !.pc = "returned", !.status = 200]]
    /\ UNCHANGED <<products, users, orders, background_tasks, consumer,
                   reported, response>>

\* main.py:115-119: the event is handed to the producer and db_order is
\* returned; the response carries the BackgroundTasks list to the runner.
create_order_publish(r) ==
    /\ req[r].pc = "scheduled"
    /\ LET log_data == [event |-> "order_created",
                        order_id |-> req[r].db_order.id]
       IN  topic' = Append(topic, Serialize(log_data))
    /\ req' = [req EXCEPT ![r] = [@ EXCEPT !.pc = "returned", !.status = 200]]
    /\ UNCHANGED <<products, users, orders, background_tasks, consumer,
                   reported, response>>

\* main.py:117: producer.send raises (no try/except around it): the exception
\* leaves the handler (500), no response object is built, and the tasks added
\* to background_tasks are never handed to the runner.
create_order_publish_fail(r) ==
    /\ req[r].pc = "scheduled"
    /\ req' = [req EXCEPT ![r] = [@ EXCEPT !.pc = "publish_error",
                                           !.status = 500]]
    /\ UNCHANGED <<products, users, orders, background_tasks, topic, consumer,
                   reported, response>>

\* ------------------------------------------------ background tasks (61-72)
\* BackgroundTasks runs its list in order after the response was sent: a task
\* starts once every task before it has returned.
Runnable(r, i) ==
    /\ req[r].pc = "returned"
    /\ i \in 1..Len(background_tasks[r])
    /\ background_tasks[r][i].state = "pending"
    /\ \A j \in 1..(i - 1) : background_tasks[r][j].state = "done"

\* main.py:63-66, 69-72: sleep, then print; the task returns.
run_background_task(r, i) ==
    /\ Runnable(r, i)
    /\ background_tasks' =
         [background_tasks EXCEPT ![r][i].state = "done"]
    /\ UNCHANGED <<products, users, orders, req, topic, consumer, reported,
                   response>>

\* main.py:59,72: the write to stdout raises; the task ends in an error and
\* the tasks after it in the list are not run.
fail_background_task(r, i) ==
    /\ Runnable(r, i)
    /\ background_tasks' =
         [background_tasks EXCEPT ![r][i].state = "failed"]
    /\ UNCHANGED <<products, users, orders, req, topic, consumer, reported,
                   response>>

\* A direct update of a Product row's price.
set_product_price(p, v) ==
    /\ products[p] # v
    /\ products' = [products EXCEPT ![p] = v]
    /\ UNCHANGED <<users, orders, req, background_tasks, topic, consumer,
                   reported, response>>

\* ------------------------------------------------------ /users/ (125-158)
\* The store's key for a new User row: an id no stored row has.
FreeUserIds == UserIds \ DOMAIN users

UserRow(user_id) == [id |-> user_id] @@ users[user_id]

NotFound(op, user_id) ==
    [op |-> op, user_id |-> user_id, status |-> 404,
     body |-> "User not found"]

\* main.py:125-131
create_user(user_data) ==
    /\ \E id \in FreeUserIds :
         /\ users' = users @@ (id :> user_data)
         /\ response' = [op |-> "create_user", user_id |-> id, status |-> 200,
                         body |-> [id |-> id] @@ user_data]
    /\ UNCHANGED <<products, orders, req, background_tasks, topic, consumer,
                   reported>>

\* main.py:133-138: what GET /users/{user_id} answers in the current state.
get_user_response(user_id) ==
    IF user_id \notin DOMAIN users
    THEN NotFound("get_user", user_id)
    ELSE [op |-> "get_user", user_id |-> user_id, status |-> 200,
          body |-> UserRow(user_id)]

get_user(user_id) ==
    /\ response' = get_user_response(user_id)
    /\ UNCHANGED <<products, users, orders, req, background_tasks, topic,
                   consumer, reported>>

\* Mutation of update_user: password_hash is not copied from the body.
update_user_keeps_hash(user_id, user_data) ==
    /\ IF user_id \notin DOMAIN users
       THEN /\ response' = NotFound("update_user", user_id)
            /\ users' = users
       ELSE /\ users' = [users EXCEPT
                           ![user_id].username = user_data.username,
                           ![user_id].email = user_data.email]
            /\ response' = [op |-> "update_user", user_id |-> user_id,
                            status |-> 200,
                            body |-> [id |-> user_id] @@ users'[user_id]]
    /\ UNCHANGED <<products, orders, req, background_tasks, topic, consumer,
                   reported>>

\* main.py:140-149
update_user(user_id, user_data) ==
    /\ IF user_id \notin DOMAIN users
       THEN /\ response' = NotFound("update_user", user_id)
            /\ users' = users
       ELSE /\ users' = [users EXCEPT
                           ![user_id].username = user_data.username,
                           ![user_id].email = user_data.email,
                           ![user_id].password_hash = user_data.password_hash]
            /\ response' = [op |-> "update_user", user_id |-> user_id,
                            status |-> 200,
                            body |-> [id |-> user_id] @@ users'[user_id]]
    /\ UNCHANGED <<products, orders, req, background_tasks, topic, consumer,
                   reported>>

\* Mutation of delete_user: the delete is answered but never committed.
delete_user_no_commit(user_id) ==
    /\ IF user_id \notin DOMAIN users
       THEN response' = NotFound("delete_user", user_id)
       ELSE response' = [op |-> "delete_user", user_id |-> user_id,
                         status |-> 200,
                         body |-> "User deleted successfully"]
    /\ users' = users
    /\ UNCHANGED <<products, orders, req, background_tasks, topic, consumer,
                   reported>>

\* main.py:151-158
delete_user(user_id) ==
    /\ IF user_id \notin DOMAIN users
       THEN /\ response' = NotFound("delete_user", user_id)
            /\ users' = users
       ELSE /\ users' = [u \in DOMAIN users \ {user_id} |-> users[u]]
            /\ response' = [op |-> "delete_user", user_id |-> user_id,
                            status |-> 200,
                            body |-> "User deleted successfully"]
    /\ UNCHANGED <<products, orders, req, background_tasks, topic, consumer,
                   reported>>

\* ------------------------------------------------- Kafka consumer (78-83, 160-168)
\* main.py:161-168: startup spawns the consume thread.
start_kafka_consumer ==
    /\ ~consumer.started
    /\ consumer' = [consumer EXCEPT !.started = TRUE]
    /\ UNCHANGED <<products, users, orders, req, background_tasks, topic,
                   reported, response>>

\* Mutation of consumer_reset_offset: auto_offset_reset='latest', the first
\* poll starts at the end of the log.
consumer_reset_offset_latest ==
    /\ consumer.started
    /\ consumer.position = -1
    /\ consumer' = [consumer EXCEPT !.position = Len(topic)]
    /\ UNCHANGED <<products, users, orders, req, background_tasks, topic,
                   reported, response>>

\* main.py:79-83: the first poll of a group with no committed offset takes its
\* position from auto_offset_reset='earliest': the start of the log.
consumer_reset_offset ==
    /\ consumer.started
    /\ consumer.position = -1
    /\ consumer' = [consumer EXCEPT !.position = 0]
    /\ UNCHANGED <<products, users, orders, req, background_tasks, topic,
                   reported, response>>

\* main.py:164-166: one iteration of `for message in consumer`.
consume ==
    /\ consumer.position >= 0
    /\ consumer.position < Len(topic)
    /\ LET message == topic[consumer.position + 1]
           log_data == Deserialize(message)
       IN  reported' = Append(reported, log_data)
    /\ consumer' = [consumer EXCEPT !.position = @ + 1]
    /\ UNCHANGED <<products, users, orders, req, background_tasks, topic,
                   response>>

\* ------------------------------------------------------------------- Next
OrderEndpoint(R) ==
    \/ \E r \in R, order_data \in OrderCreate :
           create_order_receive(r, order_data)
    \/ \E r \in R : create_order_persist(r)
    \/ \E r \in R : create_order_persist_fail(r)
    \/ \E r \in R : create_order_schedule(r)
    \/ \E r \in R : create_order_publish(r)
    \/ \E r \in R : create_order_publish_fail(r)

TaskRunner ==
    \/ \E r \in Requests, i \in 1..2 : run_background_task(r, i)
    \/ \E r \in Requests, i \in 1..2 : fail_background_task(r, i)

ProductUpdate == \E p \in ProductIds, v \in Prices : set_product_price(p, v)

UserEndpoints ==
    \/ \E user_data \in UserCreate : create_user(user_data)
    \/ \E user_id \in UserIds : get_user(user_id)
    \/ \E user_id \in UserIds, user_data \in UserCreate :
           update_user(user_id, user_data)
    \/ \E user_id \in UserIds : delete_user(user_id)

Subscriber == consumer_reset_offset \/ consume

\* The whole service.  The specifications below run parts of it side by
\* side: the parts share no state but the Order table and the topic.
Next ==
    \/ start_kafka_consumer
    \/ OrderEndpoint(Requests)
    \/ TaskRunner
    \/ ProductUpdate
    \/ UserEndpoints
    \/ Subscriber

Spec == Init /\ [][Next]_vars

\* The order workflow: concurrent create_order calls beside price updates.
NextOrders ==
    \/ start_kafka_consumer
    \/ OrderEndpoint(Requests)
    \/ ProductUpdate

OrderSpec == Init /\ [][NextOrders]_vars

\* Concurrent create_order calls and the runner of their background tasks.
NextTasks ==
    \/ start_kafka_consumer
    \/ OrderEndpoint(Requests)
    \/ TaskRunner

TaskSpec == Init /\ [][NextTasks]_vars

\* The /users/ endpoints beside one create_order call.
NextUsers ==
    \/ start_kafka_consumer
    \/ OrderEndpoint({1})
    \/ UserEndpoints

UserSpec == Init /\ [][NextUsers]_vars

\* Publishers and the subscriber thread.  The thread, once started, keeps
\* polling: weak fairness on its two steps.
NextLog ==
    \/ start_kafka_consumer
    \/ OrderEndpoint(Requests)
    \/ Subscriber

LogSpec ==
    /\ Init
    /\ [][NextLog]_vars
    /\ WF_vars(consumer_reset_offset)
    /\ WF_vars(consume)

\* ================================================================ claims
\* Sum of the prices, in the table `rows`, of the listed product ids.
RECURSIVE ListedTotal(_, _)
ListedTotal(ids, rows) ==
    IF ids = << >> THEN 0 ELSE rows[Head(ids)] + ListedTotal(Tail(ids), rows)

Listed(order_data) == {order_data.products[i] : i \in DOMAIN order_data.products}

ValidOrder(order_data) ==
    /\ order_data.products # << >>
    /\ Listed(order_data) \subseteq ProductIds

HasMissingProduct(order_data) == ~(Listed(order_data) \subseteq ProductIds)

Events == {Deserialize(topic[i]) : i \in DOMAIN topic}

EventCount(order_id) ==
    Cardinality({i \in DOMAIN topic : Deserialize(topic[i]).order_id = order_id})

Returned(r) == req[r].pc = "returned"

\* C1: for every valid order request, the total_price computed at request
\* time is the sum of the current prices of exactly the listed products, and
\* the stored and the returned Order carry that total.
C1_TotalIsSumOfListed ==
    /\ [](\A r \in Requests :
            req[r].db_order # << >> =>
              /\ req[r].db_order.total_price = req[r].total_price
              /\ orders[req[r].db_order.id].total_price = req[r].total_price)
    /\ [][\A r \in Requests :
            (req[r].pc = "idle" /\ req'[r].pc = "priced"
               /\ ValidOrder(req'[r].order_data))
            => req'[r].total_price =
                  ListedTotal(req'[r].order_data.products, products)]_vars

\* C2: a request that lists an id of no stored Product is rejected and no
\* Order row is persisted for it.
C2_MissingProductRejected ==
    \A r \in Requests :
        (req[r].pc # "idle" /\ HasMissingProduct(req[r].order_data))
        => /\ req[r].db_order = << >>
           /\ req[r].status # 200

\* C3: every create_order call that returned its Order has exactly one
\* order_created event with that order's id on the topic, no order has more
\* than one, and every event on the topic names a persisted Order.
C3_OneEventPerOrder ==
    /\ \A r \in Requests : Returned(r) => EventCount(req[r].db_order.id) = 1
    /\ \A id \in DOMAIN orders : EventCount(id) <= 1
    /\ \A e \in Events : e.event = "order_created" /\ e.order_id \in DOMAIN orders

\* Two calls whose commits and publications interleaved: the first event on
\* the topic is the second order's.
C3_Witness ==
    /\ \A r \in Requests : Returned(r)
    /\ Len(topic) = MaxRequests
    /\ Deserialize(topic[1]).order_id = 2
    /\ req[1].db_order.id = 1

\* C4: when the order was committed and producer.send then failed, the caller
\* still gets the created Order as a success, the order stays persisted and
\* the two background tasks are scheduled.
C4_PublishFailureNotSurfaced ==
    \A r \in Requests :
        req[r].pc = "publish_error"
        => /\ req[r].status = 200
           /\ req[r].db_order.id \in DOMAIN orders
           /\ Len(background_tasks[r]) = 2

\* C5: tasks are scheduled and events published only for committed orders,
\* and only by calls that got past the commit; a call whose commit failed
\* ends as an error with no task scheduled and nothing published.
C5_CommitBeforeDispatch ==
    /\ \A r \in Requests :
         \A i \in DOMAIN background_tasks[r] :
            /\ background_tasks[r][i].args[1] \in DOMAIN orders
            /\ req[r].db_order # << >>
            /\ background_tasks[r][i].args[1] = req[r].db_order.id
    /\ \A e \in Events : e.order_id \in DOMAIN orders
    /\ Len(topic) = Cardinality({r \in Requests : Returned(r)})
    /\ \A r \in Requests :
         req[r].pc = "persist_error"
         => /\ req[r].status = 500
            /\ req[r].db_order = << >>
            /\ background_tasks[r] = << >>

\* One call failed at commit while another went through to its response.
C5_Witness ==
    /\ \E r \in Requests : req[r].pc = "persist_error"
    /\ \E r \in Requests : Returned(r) /\ Len(background_tasks[r]) = 2
    /\ Len(topic) = 1

\* C6: a successful call has scheduled exactly the confirmation-email task
\* (order id, request email) and the payment task (order id), and each of
\* the two can run whatever the state of the other.
C6_TwoIndependentTasks ==
    \A r \in Requests :
        Returned(r)
        => /\ Len(background_tasks[r]) = 2
           /\ background_tasks[r][1].actor = "send_confirmation_email"
           /\ background_tasks[r][1].args =
                 <<req[r].db_order.id, req[r].order_data.email>>
           /\ background_tasks[r][2].actor = "process_payment"
           /\ background_tasks[r][2].args = <<req[r].db_order.id>>
           /\ \A i \in 1..2 :
                 background_tasks[r][i].state = "pending" => Runnable(r, i)

\* C7: a stored Order's total_price is the sum of the prices its listed
\* products had when the row was created, and no step changes a stored row.
C7_StoredOrderFrozen ==
    [][/\ \A id \in DOMAIN orders :
            id \in DOMAIN orders' /\ orders'[id] = orders[id]
       /\ \A id \in DOMAIN orders' \ DOMAIN orders :
            ValidOrder(orders'[id])
            => orders'[id].total_price =
                  ListedTotal(orders'[id].products, products)]_vars

\* C8: PUT /users/{id} on a stored id makes GET /users/{id} answer the body's
\* three fields under the same id and leaves every other User and every Order
\* as it was; on an absent id it answers 404 and the store is unchanged.
C8_UpdateUserFrame ==
    [][\A user_id \in UserIds, user_data \in UserCreate :
         update_user(user_id, user_data)
         => IF user_id \in DOMAIN users
            THEN /\ response'.status = 200
                 /\ get_user_response(user_id)' =
                      [op |-> "get_user", user_id |-> user_id, status |-> 200,
                       body |-> [id |-> user_id,
                                 username |-> user_data.username,
                                 email |-> user_data.email,
                                 password_hash |-> user_data.password_hash]]
                 /\ DOMAIN users' = DOMAIN users
                 /\ \A u \in DOMAIN users \ {user_id} : users'[u] = users[u]
                 /\ orders' = orders
            ELSE /\ response'.status = 404
                 /\ users' = users
                 /\ orders' = orders
                 /\ products' = products]_vars

\* An update that changed a stored user while another user and an order exist.
C8_Witness ==
    /\ response.op = "update_user"
    /\ response.status = 200
    /\ Cardinality(DOMAIN users) = 2
    /\ orders # << >>
    /\ \E u \in DOMAIN users : users[u] # users[response.user_id]

\* C9: a successful DELETE /users/{id} removes that row and no other; while
\* an id is absent, get_user, update_user and delete_user on it answer 404,
\* and only a create_user that is assigned the id makes it present again.
C9_DeletedUserNotFound ==
    [][/\ \A user_id \in DOMAIN users :
            delete_user(user_id)
            => /\ response'.status = 200
               /\ user_id \notin DOMAIN users'
               /\ get_user_response(user_id)'.status = 404
               /\ \A u \in DOMAIN users \ {user_id} :
                     u \in DOMAIN users' /\ users'[u] = users[u]
       /\ \A user_id \in UserIds \ DOMAIN users :
            /\ get_user(user_id) => response'.status = 404
            /\ delete_user(user_id)
                 => response'.status = 404 /\ users' = users
            /\ \A user_data \in UserCreate :
                 update_user(user_id, user_data)
                 => response'.status = 404 /\ users' = users
            /\ user_id \in DOMAIN users'
                 => /\ \E user_data \in UserCreate : create_user(user_data)
                    /\ response'.op = "create_user"
                    /\ response'.user_id = user_id]_vars

\* A delete that succeeded while another user stays stored.
C9_Witness ==
    /\ response.op = "delete_user"
    /\ response.status = 200
    /\ response.user_id \notin DOMAIN users
    /\ users # << >>

\* C10: the subscriber reports the events of the topic in log order, and once
\* it is started every event on the topic is eventually reported.
C10_SubscriberReportsAll ==
    /\ [](\A i \in DOMAIN reported :
             i \in DOMAIN topic /\ reported[i] = Deserialize(topic[i]))
    /\ \A i \in Requests :
         (consumer.started /\ Len(topic) >= i) ~> (Len(reported) >= i)

\* Every call's event was reported, the second order's first.
C10_Witness ==
    /\ Len(topic) = MaxRequests
    /\ Len(reported) = MaxRequests
    /\ reported[1].order_id = 2

====
